---- MODULE Spec2Model ----
(***************************************************************************)
(* A model of auspice/server/sources.js: the Source class hierarchy, the   *)
(* Dataset / Narrative handles it constructs, URL resolution, visibility   *)
(* checks and the enumeration pipelines over GitHub and S3 listings.       *)
(*                                                                         *)
(* JavaScript strings are modelled as sequences of one-character strings,  *)
(* so that join, split, replace, startsWith and endsWith are computed the  *)
(* way the code computes them.  JavaScript arrays live in a heap of        *)
(* sequences and are referred to by address, so that aliasing between the  *)
(* caller's array and a handle's pathParts is visible.                     *)
(***************************************************************************)
EXTENDS Integers, Sequences, FiniteSets, TLC

VARIABLES
  heap,      \* the arrays of the current request: heap[1] is the array the caller
             \* passed in, heap[2] the array last returned by a baseParts getter
  mutations, \* how many times the caller has mutated an array in this request
  handles,   \* the handle constructed by the current request (a sequence of 0 or 1)
  built,     \* history: the contents of the caller's array when the handle was built
  result,    \* the outcome of the last operation
  files,     \* upstream: the GitHub directory listing (file objects, sorted by name)
  objects,   \* upstream: the keys in the S3 bucket (sorted by key)
  globalAvailableDatasets, \* global.availableDatasets: source name -> address of
             \* the array held for it, 0 where the key is not set
  requests,  \* the requests being served side by side: what each called last
  script     \* the group-migration script: its options, its position, and
             \* what it has done to AWS and to the file system so far

vars ==
  <<heap, mutations, handles, built, result, files, objects,
    globalAvailableDatasets, requests, script>>

\* the state that only the specifications of concurrent requests and of the
\* migration script use
elsewhere == <<globalAvailableDatasets, requests, script>>

---------------------------------------------------------------------------
(* Bounds of the model.                                                    *)

MaxParts == 2     \* path segments a caller passes to dataset() / narrative()
MaxMutations == 1 \* array mutations a caller performs during one request
MaxGroups == 2    \* group memberships of a user
MaxFiles == 3     \* entries in a GitHub directory listing
PageSize == 2     \* objects on one page of listObjectsV2 (1000 in S3), scaled down
MaxKeys == PageSize + 1
MaxRequests == 2  \* requests served side by side
MaxMembers == 2   \* users in the IAM group of the group being migrated

---------------------------------------------------------------------------
(* JavaScript string and array primitives.                                 *)

Range(s) == {s[i] : i \in 1..Len(s)}

\* String.prototype.startsWith / endsWith
StartsWith(s, p) == Len(p) <= Len(s) /\ SubSeq(s, 1, Len(p)) = p
EndsWith(s, p) == Len(p) <= Len(s) /\ SubSeq(s, Len(s) - Len(p) + 1, Len(s)) = p

\* s.replace(/<p>$/, ""): drop the suffix p when s ends with it
StripSuffix(s, p) == IF EndsWith(s, p) THEN SubSeq(s, 1, Len(s) - Len(p)) ELSE s

\* s.replace(/^<p>/, ""): drop the prefix p when s starts with it
StripPrefix(s, p) == IF StartsWith(s, p) THEN SubSeq(s, Len(p) + 1, Len(s)) ELSE s

\* String.prototype.indexOf, 1-based; 0 when p does not occur in s
IndexOf(s, p) ==
  LET hits == {i \in 1..(Len(s) - Len(p) + 1) : SubSeq(s, i, i + Len(p) - 1) = p}
  IN IF hits = {} THEN 0 ELSE CHOOSE i \in hits : \A j \in hits : i <= j

\* s.replace(p, r) with a string pattern: the first occurrence only
ReplaceFirst(s, p, r) ==
  LET i == IndexOf(s, p)
  IN IF i = 0 THEN s
     ELSE SubSeq(s, 1, i - 1) \o r \o SubSeq(s, i + Len(p), Len(s))

\* Array.prototype.join(sep)
RECURSIVE Join(_, _)
Join(parts, sep) ==
  IF parts = <<>> THEN <<>>
  ELSE IF Len(parts) = 1 THEN parts[1]
  ELSE parts[1] \o sep \o Join(Tail(parts), sep)

\* String.prototype.split(c) for a one-character separator c
RECURSIVE Split(_, _)
Split(s, c) ==
  LET hits == {i \in 1..Len(s) : s[i] = c}
  IN IF hits = {} THEN <<s>>
     ELSE LET i == CHOOSE k \in hits : \A j \in hits : k <= j
          IN <<SubSeq(s, 1, i - 1)>> \o Split(SubSeq(s, i + 1, Len(s)), c)

---------------------------------------------------------------------------
(* String constants of the source.                                         *)

s_main == <<"m","a","i","n">>
s_meta == <<"m","e","t","a">>
s_tree == <<"t","r","e","e">>
s_json == <<".","j","s","o","n">>
s_md == <<".","m","d">>
s_us == <<"_">>
s_slash == <<"/">>
s_core == <<"c","o","r","e">>
s_staging == <<"s","t","a","g","i","n","g">>
s_master == <<"m","a","s","t","e","r">>
s_community == <<"c","o","m","m","u","n","i","t","y">>
s_inrb_drc == <<"i","n","r","b","-","d","r","c">>
s_seattleflu == <<"s","e","a","t","t","l","e","f","l","u">>
s_nextstrain_dash == <<"n","e","x","t","s","t","r","a","i","n","-">>
s_nextstrain_inrb == s_nextstrain_dash \o <<"i","n","r","b">>
s_auspice_slash == <<"a","u","s","p","i","c","e","/">>
s_narratives_slash == <<"n","a","r","r","a","t","i","v","e","s","/">>
s_http == <<"h","t","t","p",":","/","/">>
s_https == <<"h","t","t","p","s",":","/","/">>
s_nextstrain_org == <<".","n","e","x","t","s","t","r","a","i","n",".","o","r","g","/">>
s_data == <<"d","a","t","a">>
s_raw_github ==
  s_https \o <<"r","a","w",".","g","i","t","h","u","b","u","s","e","r",
               "c","o","n","t","e","n","t",".","c","o","m","/">>
s_s3_amazonaws == <<".","s","3",".","a","m","a","z","o","n","a","w","s",".","c","o","m">>
s_nextstrain_narratives ==
  <<"n","e","x","t","s","t","r","a","i","n","/">> \o <<"n","a","r","r","a","t","i","v","e","s">>

---------------------------------------------------------------------------
(* The Source class hierarchy.                                             *)

SourceClasses ==
  {"Source", "CoreSource", "CoreStagingSource", "CommunitySource", "S3Source",
   "PrivateS3Source", "PublicGroupSource", "PrivateGroupSource",
   "InrbDrcSource", "SeattleFluSource"}

\* A class declared as `class X extends PrivateS3Source {}`, with no
\* visibleToUser of its own: the subclass the message thrown by
\* PrivateS3Source.visibleToUser is addressed to.
BareSubclass == "BarePrivateS3Source"

\* the `extends` clause of each class ("" for the root)
Parent(cls) ==
  CASE cls = "Source" -> ""
    [] cls = "CoreSource" -> "Source"
    [] cls = "CoreStagingSource" -> "CoreSource"
    [] cls = "CommunitySource" -> "Source"
    [] cls = "S3Source" -> "Source"
    [] cls = "PrivateS3Source" -> "S3Source"
    [] cls = "PublicGroupSource" -> "S3Source"
    [] cls = "PrivateGroupSource" -> "PrivateS3Source"
    [] cls = "InrbDrcSource" -> "PrivateGroupSource"
    [] cls = "SeattleFluSource" -> "PublicGroupSource"
    [] cls = BareSubclass -> "PrivateS3Source"

\* cls and its ancestors, nearest first
RECURSIVE Ancestry(_)
Ancestry(cls) == IF cls = "" THEN <<>> ELSE <<cls>> \o Ancestry(Parent(cls))

\* JavaScript member lookup: the nearest class of the chain that is in `definers`
Resolve(cls, definers) ==
  LET chain == Ancestry(cls)
      hits == {i \in 1..Len(chain) : chain[i] \in definers}
  IN chain[CHOOSE i \in hits : \A j \in hits : i <= j]

---------------------------------------------------------------------------
(* Source members, resolved along the class chain.                         *)

\* what `throw InvalidSourceImplementation(...)` and `throw new
\* NoDatasetPathError()` raise
InvalidSourceImplementation == "InvalidSourceImplementation"
NoDatasetPathError == "NoDatasetPathError"

\* static get _name(): Source's own getter throws InvalidSourceImplementation
NameImpl(cls) ==
  Resolve(cls, {"Source", "CoreSource", "CoreStagingSource", "CommunitySource",
                "InrbDrcSource", "SeattleFluSource"})
NameThrows(cls) == NameImpl(cls) = "Source"
Name(cls) ==
  CASE NameImpl(cls) = "CoreSource" -> s_core
    [] NameImpl(cls) = "CoreStagingSource" -> s_staging
    [] NameImpl(cls) = "CommunitySource" -> s_community
    [] NameImpl(cls) = "InrbDrcSource" -> s_inrb_drc
    [] NameImpl(cls) = "SeattleFluSource" -> s_seattleflu

\* a source instance: its class and, for a CommunitySource, owner and repoName
SourceOf(cls) == [cls |-> cls, owner |-> <<>>, repoName |-> <<>>]
CommunityOf(owner, repoName) ==
  [cls |-> "CommunitySource", owner |-> owner, repoName |-> repoName]
NoSource == SourceOf("")

\* an argument of a JavaScript call: left out (undefined) or a string
Absent == [given |-> FALSE, str |-> <<>>]
Given(str) == [given |-> TRUE, str |-> str]
\* !x for such an argument: undefined and "" are falsy
Not(x) == ~x.given \/ x.str = <<>>

\* CommunitySource's constructor
CommunitySourceConstructorOwnerOnly(owner, repoName) ==
  IF Not(owner) THEN [threw |-> "Error", made |-> NoSource]
  ELSE [threw |-> "", made |-> CommunityOf(owner.str, repoName.str)]
CommunitySourceConstructor(owner, repoName) ==
  IF Not(owner) THEN [threw |-> "Error", made |-> NoSource]
  ELSE IF Not(repoName) THEN [threw |-> "Error", made |-> NoSource]
  ELSE [threw |-> "", made |-> CommunityOf(owner.str, repoName.str)]

\* get repo() / get branch()
Repo(src) ==
  IF Resolve(src.cls, {"Source", "CoreSource", "CoreStagingSource", "CommunitySource"})
       = "CommunitySource"
  THEN src.owner \o s_slash \o src.repoName
  ELSE s_nextstrain_narratives
Branch(src) ==
  IF Resolve(src.cls, {"Source", "CoreSource", "CoreStagingSource", "CommunitySource"})
       = "CoreStagingSource"
  THEN s_staging
  ELSE s_master

\* get bucket(): S3Source's own getter throws InvalidSourceImplementation
BucketImpl(cls) ==
  Resolve(cls, {"Source", "S3Source", "PublicGroupSource", "PrivateGroupSource",
                "InrbDrcSource"})
Bucket(src) ==
  IF BucketImpl(src.cls) = "InrbDrcSource"
  THEN s_nextstrain_inrb
  ELSE s_nextstrain_dash \o Name(src.cls)

\* get baseUrl(): Source's own getter throws InvalidSourceImplementation
BaseUrlImpl(cls) ==
  Resolve(cls, {"Source", "CoreSource", "CoreStagingSource", "CommunitySource",
                "S3Source"})
BaseUrl(src) ==
  CASE BaseUrlImpl(src.cls) = "CoreSource" -> s_http \o s_data \o s_nextstrain_org
    [] BaseUrlImpl(src.cls) = "CoreStagingSource" -> s_http \o s_staging \o s_nextstrain_org
    [] BaseUrlImpl(src.cls) = "CommunitySource" ->
         s_raw_github \o Repo(src) \o s_slash \o Branch(src) \o s_slash
    [] OTHER -> s_https \o Bucket(src) \o s_s3_amazonaws

\* dataset(pathParts) / narrative(pathParts): the handle class each source builds
DatasetClassNoPrivate(src) ==
  IF Resolve(src.cls, {"Source", "CommunitySource"}) = "CommunitySource"
  THEN "CommunityDataset"
  ELSE "Dataset"
DatasetClass(src) ==
  CASE Resolve(src.cls, {"Source", "CommunitySource", "PrivateS3Source"})
         = "CommunitySource" -> "CommunityDataset"
    [] Resolve(src.cls, {"Source", "CommunitySource", "PrivateS3Source"})
         = "PrivateS3Source" -> "PrivateS3Dataset"
    [] OTHER -> "Dataset"
NarrativeClass(src) ==
  LET impl == Resolve(src.cls, {"Source", "CoreSource", "CommunitySource",
                                "PrivateS3Source"})
  IN CASE impl = "CoreSource" -> "CoreNarrative"
       [] impl = "CommunitySource" -> "CommunityNarrative"
       [] impl = "PrivateS3Source" -> "PrivateS3Narrative"
       [] OTHER -> "Narrative"

---------------------------------------------------------------------------
(* Dataset and Narrative handles.                                          *)

\* a handle: its class, its source and the address of its pathParts array
Handle(cls, src, addr) == [cls |-> cls, source |-> src, pathParts |-> addr]

\* `this.pathParts = pathParts`: the address the handle keeps for the array at
\* address addr that the caller passed in
StorePathParts(addr) == addr

\* get baseParts(): a new array each time it is read
BasePartsPlain(h, hp) == hp[h.pathParts]
BaseParts(h, hp) ==
  CASE h.cls = "CommunityDataset" ->
         <<s_auspice_slash \o h.source.repoName>> \o hp[h.pathParts]
    [] h.cls = "CommunityNarrative" ->
         <<s_narratives_slash \o h.source.repoName>> \o hp[h.pathParts]
    [] OTHER -> hp[h.pathParts]

\* Dataset's constructor, inherited by every Dataset subclass: the handle, or
\* the error thrown
DatasetConstructorUnchecked(cls, src, addr, hp) ==
  [threw |-> "", made |-> <<[cls |-> cls, source |-> src, pathParts |-> addr]>>]
DatasetConstructor(cls, src, addr, hp) ==
  LET h == Handle(cls, src, StorePathParts(addr))
  IN IF Len(BaseParts(h, hp)) = 0
     THEN [threw |-> NoDatasetPathError, made |-> <<>>]
     ELSE [threw |-> "", made |-> <<h>>]

\* get isRequestValidWithoutDataset(), overridden by CommunityDataset
IsRequestValidWithoutDatasetDefault(h, hp) == FALSE
IsRequestValidWithoutDataset(h, hp) ==
  IF h.cls = "CommunityDataset"
  THEN IF Len(hp[h.pathParts]) = 0 THEN TRUE ELSE FALSE
  ELSE FALSE

\* Narrative's constructor, inherited by every Narrative subclass
NarrativeConstructor(cls, src, addr, hp) ==
  [threw |-> "", made |-> <<Handle(cls, src, StorePathParts(addr))>>]

\* Dataset.baseNameFor(type)
BaseNameForNoMain(h, type, hp) ==
  Join(BaseParts(h, hp), s_us) \o s_us \o type \o s_json
BaseNameFor(h, type, hp) ==
  LET baseName == Join(BaseParts(h, hp), s_us)
  IN IF type = s_main
     THEN baseName \o s_json
     ELSE baseName \o s_us \o type \o s_json

\* Narrative.baseName
BaseName(h, hp) == Join(BaseParts(h, hp), s_us) \o s_md

\* new URL(rel, base).toString() for a relative path rel without dot segments,
\* over characters that need no percent-encoding: the base loses what follows
\* the last "/" of its path (an empty path is "/") and rel is appended
ResolveUrl(rel, base) ==
  LET afterScheme == IndexOf(base, <<":","/","/">>) + 3
      slashes == {i \in afterScheme..Len(base) : base[i] = "/"}
      lastSlash == CHOOSE i \in slashes : \A j \in slashes : j <= i
  IN IF slashes = {}
     THEN base \o s_slash \o rel
     ELSE SubSeq(base, 1, lastSlash) \o rel

\* S3.getSignedUrl("getObject", {Bucket, Key}): the object's URL followed by a
\* query string that carries the signature sig
GetSignedUrl(operation, bucket, key, sig) ==
  s_https \o bucket \o s_s3_amazonaws \o s_slash \o key
    \o <<"?","S","i","g","n","a","t","u","r","e","=">> \o sig

\* Dataset.urlFor(type), overridden by PrivateS3Dataset
UrlFor(h, type, hp, sig) ==
  IF h.cls = "PrivateS3Dataset"
  THEN GetSignedUrl("getObject", Bucket(h.source), BaseNameFor(h, type, hp), sig)
  ELSE ResolveUrl(BaseNameFor(h, type, hp), BaseUrl(h.source))

\* Narrative.url(), overridden by CoreNarrative and PrivateS3Narrative
Url(h, hp, sig) ==
  CASE h.cls = "CoreNarrative" ->
         ResolveUrl(BaseName(h, hp),
                    s_raw_github \o Repo(h.source) \o s_slash \o Branch(h.source) \o s_slash)
    [] h.cls = "PrivateS3Narrative" ->
         GetSignedUrl("getObject", Bucket(h.source), BaseName(h, hp), sig)
    [] OTHER -> ResolveUrl(BaseName(h, hp), BaseUrl(h.source))

---------------------------------------------------------------------------
(* Access control.                                                         *)


\* a user: absent (null / undefined), or an object with or without a groups list
NoUser == [present |-> FALSE, hasGroups |-> FALSE, groups |-> <<>>]
UserWithoutGroups == [present |-> TRUE, hasGroups |-> FALSE, groups |-> <<>>]
UserIn(groups) == [present |-> TRUE, hasGroups |-> TRUE, groups |-> groups]

\* the class whose static visibleToUser a call on cls runs
VisibleToUserImplInherited(cls) == Resolve(cls, {"Source", "PrivateGroupSource"})
VisibleToUserImpl(cls) ==
  Resolve(cls, {"Source", "PrivateS3Source", "PrivateGroupSource"})

\* PrivateGroupSource.visibleToUser(user), with `this` the class it is called on
PrivateGroupVisibleByBucket(cls, user) ==
  IF ~user.present \/ ~user.hasGroups
  THEN [threw |-> "", value |-> FALSE]
  ELSE IF NameThrows(cls)
  THEN [threw |-> InvalidSourceImplementation, value |-> FALSE]
  ELSE [threw |-> "", value |-> Bucket(SourceOf(cls)) \in Range(user.groups)]
PrivateGroupVisibleToUser(cls, user) ==
  IF ~user.present \/ ~user.hasGroups
  THEN [threw |-> "", value |-> FALSE]
  ELSE IF NameThrows(cls)
  THEN [threw |-> InvalidSourceImplementation, value |-> FALSE]
  ELSE [threw |-> "", value |-> Name(cls) \in Range(user.groups)]

\* static visibleToUser(user) called on class cls
StaticVisibleToUser(cls, user) ==
  CASE VisibleToUserImpl(cls) = "Source" -> [threw |-> "", value |-> TRUE]
    [] VisibleToUserImpl(cls) = "PrivateS3Source" ->
         [threw |-> InvalidSourceImplementation, value |-> FALSE]
    [] VisibleToUserImpl(cls) = "PrivateGroupSource" ->
         PrivateGroupVisibleToUser(cls, user)

\* the instance method: this.constructor.visibleToUser(user)
InstanceVisibleToSignedIn(src, user) == [threw |-> "", value |-> user.present]
InstanceVisibleToUser(src, user) == StaticVisibleToUser(src.cls, user)

---------------------------------------------------------------------------
(* Inputs.                                                                 *)

RECURSIVE SeqsUpTo(_, _)
SeqsUpTo(S, n) ==
  IF n = 0 THEN {<<>>}
  ELSE LET shorter == SeqsUpTo(S, n - 1)
       IN shorter \cup {Append(q, x) : q \in shorter, x \in S}

\* path segments and the pathParts arrays callers pass
Segs == {<<"a">>, <<"h","3">>}
PathInputs == SeqsUpTo(Segs, MaxParts)

\* the sources handles are requested from: the registered sources and a
\* CommunitySource built for a request
HandleSources ==
  {SourceOf("CoreSource"), SourceOf("CoreStagingSource"), SourceOf("InrbDrcSource"),
   SourceOf("SeattleFluSource"), CommunityOf(<<"o">>, <<"r">>),
   CommunityOf(<<"o">>, <<"n","c">>)}

\* file-type variants asked of baseNameFor / urlFor
Types == {s_main, s_meta, s_tree}

\* signatures S3 may compute (they depend on the credentials and the time)
Sigs == {<<"1">>, <<"2">>}

\* users asked about
GroupNames == {s_inrb_drc, s_nextstrain_inrb, s_seattleflu}
Users == {NoUser, UserWithoutGroups} \cup {UserIn(g) : g \in SeqsUpTo(GroupNames, MaxGroups)}

Outcome(op, src, arg, threw, value) ==
  [op |-> op, source |-> src, arg |-> arg, threw |-> threw, value |-> value]

Init ==
  /\ heap = <<>>
  /\ mutations = 0
  /\ handles = <<>>
  /\ built = <<>>
  /\ result = Outcome("none", NoSource, <<>>, "", <<>>)
  /\ files = <<>>
  /\ objects = <<>>
  /\ globalAvailableDatasets = <<>>
  /\ requests = <<>>
  /\ script = <<>>

---------------------------------------------------------------------------
(* Handle construction and use within one request.                         *)

\* source.dataset(parts) with a fresh array `parts`
NewDataset(src, parts) ==
  LET out == DatasetConstructor(DatasetClass(src), src, 1, <<parts>>)
  IN /\ heap = <<>>
     /\ heap' = <<parts>>
     /\ mutations' = 0
     /\ handles' = out.made
     /\ built' = IF out.made = <<>> THEN <<>> ELSE <<parts>>
     /\ result' = Outcome("dataset", src, parts, out.threw, <<>>)
     /\ UNCHANGED <<files, objects, elsewhere>>

\* source.narrative(parts) with a fresh array `parts`
NewNarrative(src, parts) ==
  LET out == NarrativeConstructor(NarrativeClass(src), src, 1, <<parts>>)
  IN /\ heap = <<>>
     /\ heap' = <<parts>>
     /\ mutations' = 0
     /\ handles' = out.made
     /\ built' = IF out.made = <<>> THEN <<>> ELSE <<parts>>
     /\ result' = Outcome("narrative", src, parts, out.threw, <<>>)
     /\ UNCHANGED <<files, objects, elsewhere>>

\* the caller mutates an array it holds: push, pop, element assignment
Push(a, seg) ==
  /\ a \in 1..Len(heap)
  /\ mutations < MaxMutations
  /\ heap' = [heap EXCEPT ![a] = Append(@, seg)]
  /\ mutations' = mutations + 1
  /\ result' = Outcome("push", NoSource, a, "", <<>>)
  /\ UNCHANGED <<handles, built, files, objects, elsewhere>>

Pop(a) ==
  /\ a \in 1..Len(heap)
  /\ mutations < MaxMutations
  /\ Len(heap[a]) > 0
  /\ heap' = [heap EXCEPT ![a] = SubSeq(@, 1, Len(@) - 1)]
  /\ mutations' = mutations + 1
  /\ result' = Outcome("pop", NoSource, a, "", <<>>)
  /\ UNCHANGED <<handles, built, files, objects, elsewhere>>

Assign(a, i, seg) ==
  /\ a \in 1..Len(heap)
  /\ mutations < MaxMutations
  /\ i \in 1..Len(heap[a])
  /\ heap' = [heap EXCEPT ![a][i] = seg]
  /\ mutations' = mutations + 1
  /\ result' = Outcome("assign", NoSource, a, "", <<>>)
  /\ UNCHANGED <<handles, built, files, objects, elsewhere>>

\* the caller reads handle.baseParts and keeps the array it gets
GetBaseParts ==
  /\ handles # <<>>
  /\ heap' = <<heap[1], BaseParts(handles[1], heap)>>
  /\ result' = Outcome("baseParts", handles[1].source, <<>>, "", 2)
  /\ UNCHANGED <<mutations, handles, built, files, objects, elsewhere>>

CallBaseNameFor(type) ==
  /\ handles # <<>>
  /\ handles[1].cls \in {"Dataset", "CommunityDataset", "PrivateS3Dataset"}
  /\ result' = Outcome("baseNameFor", handles[1].source, type, "",
                       BaseNameFor(handles[1], type, heap))
  /\ UNCHANGED <<heap, mutations, handles, built, files, objects, elsewhere>>

GetBaseName ==
  /\ handles # <<>>
  /\ handles[1].cls \in {"Narrative", "CoreNarrative", "CommunityNarrative",
                         "PrivateS3Narrative"}
  /\ result' = Outcome("baseName", handles[1].source, <<>>, "",
                       BaseName(handles[1], heap))
  /\ UNCHANGED <<heap, mutations, handles, built, files, objects, elsewhere>>

CallUrlFor(type, sig) ==
  /\ handles # <<>>
  /\ handles[1].cls \in {"Dataset", "CommunityDataset", "PrivateS3Dataset"}
  /\ result' = Outcome("urlFor", handles[1].source, type, "",
                       UrlFor(handles[1], type, heap, sig))
  /\ UNCHANGED <<heap, mutations, handles, built, files, objects, elsewhere>>

CallUrl(sig) ==
  /\ handles # <<>>
  /\ handles[1].cls \in {"Narrative", "CoreNarrative", "CommunityNarrative",
                         "PrivateS3Narrative"}
  /\ result' = Outcome("url", handles[1].source, <<>>, "",
                       Url(handles[1], heap, sig))
  /\ UNCHANGED <<heap, mutations, handles, built, files, objects, elsewhere>>

GetIsRequestValidWithoutDataset ==
  /\ handles # <<>>
  /\ handles[1].cls \in {"Dataset", "CommunityDataset", "PrivateS3Dataset"}
  /\ result' = Outcome("isRequestValidWithoutDataset", handles[1].source, <<>>, "",
                       IsRequestValidWithoutDataset(handles[1], heap))
  /\ UNCHANGED <<heap, mutations, handles, built, files, objects, elsewhere>>

\* the request ends: its arrays and its handle are dropped
EndRequest ==
  /\ heap # <<>>
  /\ heap' = <<>>
  /\ mutations' = 0
  /\ handles' = <<>>
  /\ built' = <<>>
  /\ result' = Outcome("none", NoSource, <<>>, "", <<>>)
  /\ UNCHANGED <<files, objects, elsewhere>>

Next ==
  \/ \E src \in HandleSources, parts \in PathInputs : NewDataset(src, parts)
  \/ \E src \in HandleSources, parts \in PathInputs : NewNarrative(src, parts)
  \/ \E a \in 1..2, seg \in Segs : Push(a, seg)
  \/ \E a \in 1..2 : Pop(a)
  \/ \E a \in 1..2, i \in 1..(MaxParts + MaxMutations + 1), seg \in Segs : Assign(a, i, seg)
  \/ GetBaseParts
  \/ \E type \in Types : CallBaseNameFor(type)
  \/ GetBaseName
  \/ \E type \in Types, sig \in Sigs : CallUrlFor(type, sig)
  \/ \E sig \in Sigs : CallUrl(sig)
  \/ GetIsRequestValidWithoutDataset
  \/ EndRequest

Spec == Init /\ [][Next]_vars

---------------------------------------------------------------------------
(* Access checks.                                                          *)

CallStaticVisibleToUser(cls, user) ==
  LET out == StaticVisibleToUser(cls, user)
  IN /\ result' = Outcome("visibleToUser", SourceOf(cls),
                          [user |-> user, via |-> "class"], out.threw, out.value)
     /\ UNCHANGED <<heap, mutations, handles, built, files, objects, elsewhere>>

CallInstanceVisibleToUser(src, user) ==
  LET out == InstanceVisibleToUser(src, user)
  IN /\ result' = Outcome("visibleToUser", SourceOf(src.cls),
                          [user |-> user, via |-> "instance"], out.threw, out.value)
     /\ UNCHANGED <<heap, mutations, handles, built, files, objects, elsewhere>>

---------------------------------------------------------------------------
(* The registry: module.exports = sourceMap.                               *)

\* const sources = [...]
sources ==
  <<"CoreSource", "CoreStagingSource", "CommunitySource", "InrbDrcSource",
    "SeattleFluSource">>

\* a Map is its entries in insertion order; set() replaces the value of a
\* key that is present and appends otherwise
MapSet(m, key, value) ==
  IF \E i \in 1..Len(m) : m[i].key = key
  THEN [i \in 1..Len(m) |->
          IF m[i].key = key THEN [key |-> key, value |-> value] ELSE m[i]]
  ELSE Append(m, [key |-> key, value |-> value])

\* new Map(entries)
RECURSIVE NewMap(_, _)
NewMap(m, entries) ==
  IF entries = <<>> THEN m
  ELSE NewMap(MapSet(m, Head(entries).key, Head(entries).value), Tail(entries))

\* const sourceMap = new Map(sources.map(s => [s._name, s]))
sourceMap ==
  NewMap(<<>>, [i \in 1..Len(sources) |->
                  [key |-> Name(sources[i]), value |-> sources[i]]])

Undefined == "undefined"

ToLowerCase(str) ==
  [i \in 1..Len(str) |->
     CASE str[i] = "C" -> "c" [] str[i] = "S" -> "s" [] OTHER -> str[i]]

\* Map.prototype.get(key): keys are compared exactly
MapGetIgnoreCase(m, key) ==
  IF \E i \in 1..Len(m) : m[i].key = ToLowerCase(key)
  THEN (CHOOSE e \in Range(m) : e.key = ToLowerCase(key)).value
  ELSE Undefined
MapGet(m, key) ==
  IF \E i \in 1..Len(m) : m[i].key = key
  THEN (CHOOSE e \in Range(m) : e.key = key).value
  ELSE Undefined

\* names a router may look up: the registered ones, the same in another
\* case, prefixes, a bucket name, the empty string
LookupNames ==
  {s_core, s_staging, s_community, s_inrb_drc, s_seattleflu,
   <<"C","o","r","e">>, <<"S","t","a","g","i","n","g">>, <<"c","o","r">>,
   s_core \o <<" ">>, s_nextstrain_inrb, s_master, <<>>}

\* sourceMap.get(name); the _name of the class found is read for the record
Lookup(name) ==
  LET found == MapGet(sourceMap, name)
  IN /\ result' = Outcome("lookup", NoSource, name, "",
                          [cls |-> found,
                           name |-> IF found = Undefined THEN <<>> ELSE Name(found)])
     /\ UNCHANGED <<heap, mutations, handles, built, files, objects, elsewhere>>

\* arguments a router may pass to new CommunitySource(owner, repoName)
CtorArgs == {Absent, Given(<<>>), Given(<<"o">>), Given(<<"n","c">>)}

\* new CommunitySource(owner, repoName), then a read of repo and branch
NewCommunitySource(owner, repoName) ==
  LET out == CommunitySourceConstructor(owner, repoName)
  IN /\ result' = Outcome("CommunitySource", out.made,
                          [owner |-> owner, repoName |-> repoName], out.threw,
                          IF out.threw = "" 
                          THEN [repo |-> Repo(out.made), branch |-> Branch(out.made)]
                          ELSE [repo |-> <<>>, branch |-> <<>>])
     /\ UNCHANGED <<heap, mutations, handles, built, files, objects, elsewhere>>

\* an instance of each class
InstanceOf(cls) ==
  IF cls = "CommunitySource" THEN CommunityOf(<<"o">>, <<"r">>) ELSE SourceOf(cls)

NextAccess ==
  \/ \E cls \in SourceClasses \cup {BareSubclass}, user \in Users :
       CallStaticVisibleToUser(cls, user)
  \/ \E cls \in SourceClasses \cup {BareSubclass}, user \in Users :
       CallInstanceVisibleToUser(InstanceOf(cls), user)
  \/ \E name \in LookupNames : Lookup(name)
  \/ \E owner \in CtorArgs, repoName \in CtorArgs :
       NewCommunitySource(owner, repoName)

SpecAccess == Init /\ [][NextAccess]_vars

---------------------------------------------------------------------------
(* Enumeration: filter-and-transform pipelines over upstream listings.     *)

\* Array.prototype.map with the path transform of every pipeline:
\* name.split("_").join("/")
SlashPath(name) == Join(Split(name, "_"), s_slash)

\* Array.from(new Set(list)): the first occurrence of each element, in order
RECURSIVE Unique(_)
Unique(list) ==
  IF list = <<>> THEN <<>>
  ELSE LET init == Unique(SubSeq(list, 1, Len(list) - 1))
           last == list[Len(list)]
       IN IF last \in Range(init) THEN init ELSE Append(init, last)

MapSeq(list, F(_)) == [i \in 1..Len(list) |-> F(list[i])]

s_README_md == <<"R","E","A","D","M","E">> \o s_md
s_meta_json == s_us \o s_meta \o s_json
s_tree_json == s_us \o s_tree \o s_json
sidecarSuffixes ==
  <<s_meta, s_tree, <<"r","o","o","t","-","s","e","q","u","e","n","c","e">>,
    <<"s","e","q">>, <<"t","i","p","-","f","r","e","q","u","e","n","c","i","e","s">>>>

notSidecarAtAll(filename) == TRUE
notSidecar(filename) ==
  ~ \E i \in 1..Len(sidecarSuffixes) :
        EndsWith(filename, s_us \o sidecarSuffixes[i] \o s_json)

\* CoreSource.availableNarratives, after an OK response carrying `listing`
CoreNarrativesOf(listing) ==
  LET IsFile(file) == file.type = "file"
      NotReadme(file) == file.name # s_README_md
      IsMd(file) == EndsWith(file.name, s_md)
      Path(file) == SlashPath(StripSuffix(file.name, s_md))
  IN MapSeq(SelectSeq(SelectSeq(SelectSeq(listing, IsFile), NotReadme), IsMd), Path)

\* CommunitySource.availableDatasets, after an OK response carrying `listing`
CommunityDatasetsOf(src, listing) ==
  LET IsFile(file) == file.type = "file"
      IsJson(file) == EndsWith(file.name, s_json)
      OfRepo(file) == StartsWith(file.name, src.repoName)
      NameOf(file) == file.name
      jsonFiles ==
        MapSeq(SelectSeq(SelectSeq(SelectSeq(listing, IsFile), IsJson), OfRepo), NameOf)
      NoJson(filename) == StripSuffix(filename, s_json)
      v2 == MapSeq(SelectSeq(jsonFiles, notSidecar), NoJson)
      IsMeta(filename) == EndsWith(filename, s_meta_json)
      HasTree(filename) ==
        (StripSuffix(filename, s_meta_json) \o s_tree_json) \in Range(jsonFiles)
      NoMeta(filename) == StripSuffix(filename, s_meta_json)
      v1 == MapSeq(SelectSeq(SelectSeq(jsonFiles, IsMeta), HasTree), NoMeta)
      Path(filename) ==
        SlashPath(StripPrefix(ReplaceFirst(filename, src.repoName, <<>>), s_us))
  IN MapSeq(Unique(v2 \o v1), Path)

\* CommunitySource.availableNarratives, after an OK response carrying `listing`
CommunityNarrativesOf(src, listing) ==
  LET IsFile(file) == file.type = "file"
      NotReadme(file) == file.name # s_README_md
      IsMd(file) == EndsWith(file.name, s_md)
      OfRepo(file) == StartsWith(file.name, src.repoName)
      Path(file) ==
        SlashPath(StripSuffix(
          StripPrefix(ReplaceFirst(file.name, src.repoName, <<>>), s_us), s_md))
  IN MapSeq(SelectSeq(SelectSeq(SelectSeq(SelectSeq(listing, IsFile), NotReadme),
                                IsMd), OfRepo), Path)

\* S3Source._listObjects, after listObjectsV2 resolved: the Contents of the
\* one response, which holds the first page of the bucket's keys
ListObjects(bucketObjects) ==
  SubSeq(bucketObjects, 1, IF Len(bucketObjects) < PageSize
                           THEN Len(bucketObjects) ELSE PageSize)

\* S3Source.availableDatasets / availableNarratives over the listed objects
S3DatasetsOf(listed) ==
  LET KeyOf(object) == object.Key
      IsTree(file) == EndsWith(file, s_tree_json)
      Path(file) == SlashPath(StripSuffix(file, s_tree_json))
  IN MapSeq(SelectSeq(MapSeq(listed, KeyOf), IsTree), Path)

S3NarrativesOf(listed) ==
  LET KeyOf(object) == object.Key
      IsMd(file) == EndsWith(file, s_md)
      Path(file) == SlashPath(StripSuffix(file, s_md))
  IN MapSeq(SelectSeq(MapSeq(listed, KeyOf), IsMd), Path)

\* what an async enumeration settles to, given how the upstream call went:
\* "ok", "notok" (an HTTP response whose ok is false) or "rejected" (the
\* promise of fetch / listObjectsV2 rejects)
GitHubEnumeration(status, paths) ==
  CASE status = "rejected" -> [threw |-> "FetchError", value |-> <<>>]
    [] status = "notok" -> [threw |-> "", value |-> <<>>]
    [] status = "ok" -> [threw |-> "", value |-> paths]

S3Enumeration(status, paths) ==
  CASE status = "rejected" -> [threw |-> "AWSError", value |-> <<>>]
    [] status = "ok" -> [threw |-> "", value |-> paths]

---------------------------------------------------------------------------
(* Upstream listings.                                                      *)

\* characters of the listings' names, in code-unit order
Alphabet ==
  <<".", "A", "D", "E", "M", "R", "_", "a", "d", "e", "j", "m", "n", "o", "q",
    "r", "s", "t", "x", "y">>
Code(c) == CHOOSE i \in 1..Len(Alphabet) : Alphabet[i] = c

RECURSIVE LexLess(_, _)
LexLess(x, y) ==
  IF y = <<>> THEN FALSE
  ELSE IF x = <<>> THEN TRUE
  ELSE IF x[1] = y[1] THEN LexLess(Tail(x), Tail(y))
  ELSE Code(x[1]) < Code(y[1])

\* the names of set S in ascending order
RECURSIVE Sorted(_)
Sorted(S) ==
  IF S = {} THEN <<>>
  ELSE LET least == CHOOSE x \in S : \A y \in S \ {x} : LexLess(x, y)
       IN <<least>> \o Sorted(S \ {least})

RECURSIVE SubsetsUpTo(_, _)
SubsetsUpTo(S, n) ==
  IF n = 0 THEN {{}}
  ELSE LET smaller == SubsetsUpTo(S, n - 1)
       IN smaller \cup {p \cup {x} : p \in smaller, x \in S}

Stems == {<<"r">>, <<"r","x">>, <<"r","_","x">>, <<"r","_","x","_","y">>}
Suffixes == {s_json, s_meta_json, s_tree_json, s_md}
NamePool ==
  {stem \o suffix : stem \in Stems, suffix \in Suffixes}
    \cup {s_README_md, <<"r","_","x","_","s","e","q">> \o s_json,
          <<"q">> \o s_json, <<"q">> \o s_md}

\* directory entries a GitHub contents response may list: files, and a
\* directory whose name looks like a dataset
EntryPool ==
  {[type |-> "file", name |-> n] : n \in NamePool}
    \cup {[type |-> "dir", name |-> <<"r","_","d">> \o s_json]}
ObjectPool == {[Key |-> n] : n \in NamePool}

\* a listing names each entry once and comes sorted by name
ListingOf(S) ==
  LET names == Sorted({e.name : e \in S})
  IN [i \in 1..Len(names) |-> CHOOSE e \in S : e.name = names[i]]
BucketOf(S) ==
  LET keys == Sorted({o.Key : o \in S})
  IN [i \in 1..Len(keys) |-> [Key |-> keys[i]]]
Listings == {ListingOf(S) : S \in SubsetsUpTo(EntryPool, MaxFiles)}
Buckets == {BucketOf(S) : S \in SubsetsUpTo(ObjectPool, MaxKeys)}

InitEnum ==
  /\ heap = <<>>
  /\ mutations = 0
  /\ handles = <<>>
  /\ built = <<>>
  /\ result = Outcome("none", NoSource, <<>>, "", <<>>)
  /\ \/ files \in Listings /\ objects = <<>>
     \/ files = <<>> /\ objects \in Buckets
  /\ globalAvailableDatasets = <<>>
  /\ requests = <<>>
  /\ script = <<>>

CoreAvailableNarratives(src, status) ==
  LET out == GitHubEnumeration(status, CoreNarrativesOf(files))
  IN /\ result' = Outcome("availableNarratives", src, status, out.threw, out.value)
     /\ UNCHANGED <<heap, mutations, handles, built, files, objects, elsewhere>>

CommunityAvailableDatasets(src, status) ==
  LET out == GitHubEnumeration(status, CommunityDatasetsOf(src, files))
  IN /\ result' = Outcome("availableDatasets", src, status, out.threw, out.value)
     /\ UNCHANGED <<heap, mutations, handles, built, files, objects, elsewhere>>

CommunityAvailableNarratives(src, status) ==
  LET out == GitHubEnumeration(status, CommunityNarrativesOf(src, files))
  IN /\ result' = Outcome("availableNarratives", src, status, out.threw, out.value)
     /\ UNCHANGED <<heap, mutations, handles, built, files, objects, elsewhere>>

S3AvailableDatasets(src, status) ==
  LET out == S3Enumeration(status, S3DatasetsOf(ListObjects(objects)))
  IN /\ result' = Outcome("availableDatasets", src, status, out.threw, out.value)
     /\ UNCHANGED <<heap, mutations, handles, built, files, objects, elsewhere>>

S3AvailableNarratives(src, status) ==
  LET out == S3Enumeration(status, S3NarrativesOf(ListObjects(objects)))
  IN /\ result' = Outcome("availableNarratives", src, status, out.threw, out.value)
     /\ UNCHANGED <<heap, mutations, handles, built, files, objects, elsewhere>>

\* a caller takes the k-th path availableDatasets() of a Community source
\* returned, splits it at "/" and asks source.dataset(segments) for the
\* main and the meta base name
CommunityResolveListed(k) ==
  LET src == result.source
      path == result.value[k]
      hp == <<Split(path, "/")>>
      out == DatasetConstructor(DatasetClass(src), src, 1, hp)
  IN /\ result.op = "availableDatasets"
     /\ result.source.cls = "CommunitySource"
     /\ result.threw = ""
     /\ k \in 1..Len(result.value)
     /\ result' = Outcome("resolveListed", src, path, out.threw,
                          IF out.threw # "" THEN <<>>
                          ELSE [main |-> BaseNameFor(out.made[1], s_main, hp),
                                meta |-> BaseNameFor(out.made[1], s_meta, hp)])
     /\ UNCHANGED <<heap, mutations, handles, built, files, objects, elsewhere>>

CoreSources == {SourceOf("CoreSource"), SourceOf("CoreStagingSource")}
CommunitySources == {CommunityOf(<<"o">>, <<"r">>)}
S3Sources == {SourceOf("InrbDrcSource"), SourceOf("SeattleFluSource")}

NextEnum ==
  \/ \E src \in CoreSources, status \in {"ok", "notok", "rejected"} :
       CoreAvailableNarratives(src, status)
  \/ \E src \in CommunitySources, status \in {"ok", "notok", "rejected"} :
       CommunityAvailableDatasets(src, status)
  \/ \E src \in CommunitySources, status \in {"ok", "notok", "rejected"} :
       CommunityAvailableNarratives(src, status)
  \/ \E src \in S3Sources, status \in {"ok", "rejected"} :
       S3AvailableDatasets(src, status)
  \/ \E src \in S3Sources, status \in {"ok", "rejected"} :
       S3AvailableNarratives(src, status)
  \/ \E k \in 1..MaxFiles : CommunityResolveListed(k)

SpecEnum == InitEnum /\ [][NextEnum]_vars

---------------------------------------------------------------------------
(* Requests served side by side by one process.  Each request calls one    *)
(* operation of a source and may then change an array it holds; the heap   *)
(* and global.availableDatasets are the process's, shared by all requests. *)

\* CoreSource.availableDatasets(): global.availableDatasets[this.name] || [],
\* as the array returned (an address) and the heap after the call
CoreAvailableDatasets(src, g, hp) ==
  LET held == g[Name(src.cls)]
  IN IF held # 0
     THEN [heap |-> hp, ret |-> held]
     ELSE [heap |-> Append(hp, <<>>), ret |-> Len(hp) + 1]

\* the lists global.availableDatasets may hold for a source after startup
StartupLists == {<<>>, <<<<"z">>>>, <<<<"f","/","h">>, <<"z">>>>}

Idle == [op |-> "none", source |-> NoSource, arg |-> <<>>, ret |-> 0, out |-> <<>>]

\* the process after startup: the core list is set, the staging list is set
\* or its key is missing
InitRequests ==
  /\ \E core \in StartupLists :
       \/ /\ heap = <<core>>
          /\ globalAvailableDatasets = [n \in {s_core, s_staging} |->
                                          IF n = s_core THEN 1 ELSE 0]
       \/ \E staging \in StartupLists :
            /\ heap = <<core, staging>>
            /\ globalAvailableDatasets = [n \in {s_core, s_staging} |->
                                            IF n = s_core THEN 1 ELSE 2]
  /\ mutations = 0
  /\ handles = <<>>
  /\ built = <<>>
  /\ result = Outcome("none", NoSource, <<>>, "", <<>>)
  /\ files = <<>>
  /\ objects = <<>>
  /\ requests = [r \in 1..MaxRequests |-> Idle]
  /\ script = <<>>

\* request r calls src.availableDatasets() on a core source
RequestAvailableDatasets(r, src) ==
  LET call == CoreAvailableDatasets(src, globalAvailableDatasets, heap)
  IN /\ requests[r].op = "none"
     /\ heap' = call.heap
     /\ requests' = [requests EXCEPT ![r] =
                       [op |-> "availableDatasets", source |-> src, arg |-> <<>>,
                        ret |-> call.ret, out |-> call.heap[call.ret]]]
     /\ UNCHANGED <<mutations, handles, built, result, files, objects,
                    globalAvailableDatasets, script>>

\* request r calls src.dataset(parts) with an array of its own and reads the
\* handle's main base name
RequestDataset(r, src, parts) ==
  LET addr == Len(heap) + 1
      hp == Append(heap, parts)
      made == DatasetConstructor(DatasetClass(src), src, addr, hp)
  IN /\ requests[r].op = "none"
     /\ heap' = hp
     /\ requests' = [requests EXCEPT ![r] =
                       [op |-> "dataset", source |-> src, arg |-> parts, ret |-> addr,
                        out |-> IF made.threw # "" THEN <<made.threw>>
                                ELSE BaseNameFor(made.made[1], s_main, hp)]]
     /\ UNCHANGED <<mutations, handles, built, result, files, objects,
                    globalAvailableDatasets, script>>

\* request r pushes onto the array it passed in or was handed
RequestPush(r, seg) ==
  /\ requests[r].op # "none"
  /\ mutations < MaxMutations
  /\ heap' = [heap EXCEPT ![requests[r].ret] = Append(@, seg)]
  /\ mutations' = mutations + 1
  /\ UNCHANGED <<handles, built, result, files, objects,
                 globalAvailableDatasets, requests, script>>

NextRequests ==
  \/ \E r \in 1..MaxRequests, src \in CoreSources : RequestAvailableDatasets(r, src)
  \/ \E r \in 1..MaxRequests, src \in HandleSources, parts \in PathInputs :
       RequestDataset(r, src, parts)
  \/ \E r \in 1..MaxRequests, seg \in Segs : RequestPush(r, seg)

SpecRequests == InitRequests /\ [][NextRequests]_vars

---------------------------------------------------------------------------
(* The group-migration script.  Each await of the script is one step; the  *)
(* script records the commands it sent to AWS, the command lines it ran    *)
(* and the files it wrote.                                                 *)

\* the group being migrated and its single-tenant bucket
GroupName == "g"
GroupBucket == "nextstrain-g"
REPO == "."

\* parseArgs(): --dry-run stores true and is the default, --wet-run stores
\* false into the same dest; the last option given wins
RECURSIVE ParseArgs(_, _)
ParseArgs(argv, dryRun) ==
  IF argv = <<>> THEN dryRun
  ELSE ParseArgs(Tail(argv),
                 CASE Head(argv) = "--dry-run" -> TRUE
                   [] Head(argv) = "--wet-run" -> FALSE
                   [] OTHER -> dryRun)

\* the argv s3Sync builds
S3SyncArgvWet(dryRun, prefix, filters) ==
  <<"aws", "s3", "sync", "--delete", "s3://" \o GroupBucket \o "/",
    "s3://nextstrain-groups/" \o GroupName \o "/" \o prefix>> \o filters
S3SyncArgv(dryRun, prefix, filters) ==
  <<"aws", "s3", "sync">>
    \o (IF dryRun THEN <<"--dryrun">> ELSE <<>>)
    \o <<"--delete", "s3://" \o GroupBucket \o "/",
         "s3://nextstrain-groups/" \o GroupName \o "/" \o prefix>>
    \o filters

\* the three syncs of syncData, in order: prefix and filters
SyncCalls ==
  <<[prefix |-> "datasets/",
     filters |-> <<"--exclude=*", "--include=*.json", "--exclude=*/*">>],
    [prefix |-> "narratives/",
     filters |-> <<"--exclude=*", "--include=*.md", "--exclude=*/*",
                   "--exclude=group-overview.md">>],
    [prefix |-> "",
     filters |-> <<"--exclude=*", "--include=group-overview.md",
                   "--include=group-logo.png">>]>>

\* updateServerPolicies: the policy files, and basename() of the files written
policyFiles ==
  <<"aws/iam/policy/NextstrainDotOrgServerInstance.json",
    "aws/iam/policy/NextstrainDotOrgServerInstanceDev.json">>
dataFile == REPO \o "/data/groups.json"
basename(path) ==
  CASE path = policyFiles[1] -> "NextstrainDotOrgServerInstance.json"
    [] path = policyFiles[2] -> "NextstrainDotOrgServerInstanceDev.json"
    [] path = dataFile -> "groups.json"

\* a file of the working tree, and a file in the n-th directory tempdir() made
RepoFile(path) == [tmp |-> FALSE, dir |-> 0, path |-> path]
TmpFile(n, name) == [tmp |-> TRUE, dir |-> n, path |-> name]

\* the names deleteIAMResources looks for among IAM groups and users
potentialNames == {GroupBucket, "nextstrain-" \o GroupName}

\* inputs: the options on the command line, the users of the IAM group, the
\* policies attached to it
ArgvInputs ==
  {<<>>, <<"--dry-run">>, <<"--wet-run">>, <<"--wet-run", "--dry-run">>,
   <<"--dry-run", "--wet-run">>}
MemberNames == {"nextstrain-g", "alice", "bob"}
PolicyInputs ==
  {<<>>, <<"SeeCloudFrontDistributions">>,
   <<"GroupPolicy", "SeeCloudFrontDistributions">>}

\* the script as the process starts: its command line and what it will find
\* in its environment and on AWS
InitMigrate ==
  /\ heap = <<>>
  /\ mutations = 0
  /\ handles = <<>>
  /\ built = <<>>
  /\ result = Outcome("none", NoSource, <<>>, "", <<>>)
  /\ files = <<>>
  /\ objects = <<>>
  /\ globalAvailableDatasets = <<>>
  /\ requests = <<>>
  /\ \E argv \in ArgvInputs, found \in {"none", "one", "several", "noAccountId", "noBucket"},
        members \in SeqsUpTo(MemberNames, MaxMembers), policies \in PolicyInputs :
       /\ (found # "one" => members = <<>> /\ policies = <<>>)
       /\ script = [argv |-> argv, found |-> found, members |-> members,
                    policies |-> policies, pc |-> "parseArgs", dryRun |-> FALSE,
                    i |-> 0, tempdirs |-> 0, sent |-> <<>>, ran |-> <<>>,
                    written |-> <<>>, todo |-> <<>>]

\* if (!dryRun) await client.send(command)
Sent(command, target) ==
  IF ~script.dryRun
  THEN Append(script.sent, [command |-> command, target |-> target])
  ELSE script.sent

Others == <<heap, mutations, handles, built, result, files, objects,
            globalAvailableDatasets, requests>>

\* main(parseArgs()): the options are parsed, then main checks AWS_ACCOUNT_ID
RunParseArgs ==
  /\ script.pc = "parseArgs"
  /\ script' = [script EXCEPT !.dryRun = ParseArgs(script.argv, TRUE), !.pc = "main"]
  /\ UNCHANGED Others

Main ==
  /\ script.pc = "main"
  /\ script' = [script EXCEPT !.pc = IF script.found = "noAccountId"
                                     THEN "failed" ELSE "migrate"]
  /\ UNCHANGED Others

\* migrate(): a group without a single-tenant bucket is refused
Migrate ==
  /\ script.pc = "migrate"
  /\ script' = [script EXCEPT !.pc = IF script.found = "noBucket"
                                     THEN "failed" ELSE "findIAMGroup"]
  /\ UNCHANGED Others

\* deleteIAMResources, up to the result of findIAMGroup: no candidate group
\* leaves a manual step, several candidates throw
FindIAMGroup ==
  /\ script.pc = "findIAMGroup"
  /\ script' =
       CASE script.found = "none" ->
              [script EXCEPT !.todo = Append(@, "Review AWS Console"),
                             !.pc = "deleteBucketPolicy"]
         [] script.found = "several" -> [script EXCEPT !.pc = "failed"]
         [] OTHER -> [script EXCEPT !.pc = "removeMembers", !.i = 1]
  /\ UNCHANGED Others

\* one turn of the loop over iamGroup.Members, or its end and the listing of
\* the attached policies
RemoveMember ==
  /\ script.pc = "removeMembers"
  /\ script' =
       IF script.i <= Len(script.members)
       THEN LET username == script.members[script.i]
            IN [script EXCEPT
                  !.todo = IF username \in potentialNames
                           THEN Append(@, "Delete IAM user " \o username) ELSE @,
                  !.sent = Sent("RemoveUserFromGroup", username),
                  !.i = @ + 1]
       ELSE [script EXCEPT !.pc = "detachPolicies", !.i = 1]
  /\ UNCHANGED Others

\* one turn of the loop over attachedPolicies, or its end
DetachPolicy ==
  /\ script.pc = "detachPolicies"
  /\ script' =
       IF script.i <= Len(script.policies)
       THEN LET name == script.policies[script.i]
            IN [script EXCEPT
                  !.todo = IF name # "SeeCloudFrontDistributions"
                           THEN Append(@, "Delete IAM policy " \o name) ELSE @,
                  !.sent = Sent("DetachGroupPolicy", name),
                  !.i = @ + 1]
       ELSE [script EXCEPT !.pc = "deleteGroup"]
  /\ UNCHANGED Others

DeleteGroup ==
  /\ script.pc = "deleteGroup"
  /\ script' = [script EXCEPT !.sent = Sent("DeleteGroup", GroupBucket),
                              !.pc = "deleteBucketPolicy"]
  /\ UNCHANGED Others

\* updateBucketPolicies: its two sends
DeleteBucketPolicy ==
  /\ script.pc = "deleteBucketPolicy"
  /\ script' = [script EXCEPT !.sent = Sent("DeleteBucketPolicy", GroupBucket),
                              !.pc = "putPublicAccessBlock"]
  /\ UNCHANGED Others

PutPublicAccessBlock ==
  /\ script.pc = "putPublicAccessBlock"
  /\ script' = [script EXCEPT !.sent = Sent("PutPublicAccessBlock", GroupBucket),
                              !.pc = "s3Sync", !.i = 1]
  /\ UNCHANGED Others

\* syncData: the next of its three s3Sync calls runs its argv; after the
\* last, the bucket is listed for objects left to review
S3Sync ==
  /\ script.pc = "s3Sync"
  /\ script' =
       IF script.i <= Len(SyncCalls)
       THEN [script EXCEPT
               !.ran = Append(@, S3SyncArgv(script.dryRun, SyncCalls[script.i].prefix,
                                            SyncCalls[script.i].filters)),
               !.i = @ + 1]
       ELSE [script EXCEPT !.pc = "updateGroupsDataFile"]
  /\ UNCHANGED Others

\* updateGroupsDataFile: the new data goes to a temporary file on a dry run
\* and to data/groups.json otherwise
UpdateGroupsDataFile ==
  /\ script.pc = "updateGroupsDataFile"
  /\ script' =
       IF script.dryRun
       THEN [script EXCEPT
               !.tempdirs = @ + 1,
               !.written = Append(@, TmpFile(script.tempdirs + 1, basename(dataFile))),
               !.pc = "updatePolicyFiles", !.i = 1]
       ELSE [script EXCEPT
               !.written = Append(@, RepoFile(dataFile)),
               !.pc = "updatePolicyFiles", !.i = 1]
  /\ UNCHANGED Others

\* updateServerPolicies: one turn of updatePolicyFiles' loop, or its end and
\* the manual step syncPoliciesTodo returns
UpdatePolicyFile ==
  /\ script.pc = "updatePolicyFiles"
  /\ script' =
       IF script.i <= Len(policyFiles)
       THEN IF script.dryRun
            THEN [script EXCEPT
                    !.tempdirs = @ + 1,
                    !.written = Append(@, TmpFile(script.tempdirs + 1,
                                                  basename(policyFiles[script.i]))),
                    !.i = @ + 1]
            ELSE [script EXCEPT
                    !.written = Append(@, RepoFile(policyFiles[script.i])),
                    !.i = @ + 1]
       ELSE [script EXCEPT
               !.todo = Append(@, IF script.dryRun THEN "terraform plan"
                                  ELSE "terraform apply"),
               !.pc = "done"]
  /\ UNCHANGED Others

\* an awaited AWS call or subprocess rejects: migrate() rejects and main's
\* catch reports the failure
Reject ==
  /\ script.pc \notin {"parseArgs", "main", "migrate", "done", "failed"}
  /\ script' = [script EXCEPT !.pc = "failed"]
  /\ UNCHANGED Others

NextMigrate ==
  \/ RunParseArgs
  \/ Main
  \/ Migrate
  \/ FindIAMGroup
  \/ RemoveMember
  \/ DetachPolicy
  \/ DeleteGroup
  \/ DeleteBucketPolicy
  \/ PutPublicAccessBlock
  \/ S3Sync
  \/ UpdateGroupsDataFile
  \/ UpdatePolicyFile
  \/ Reject

SpecMigrate == InitMigrate /\ [][NextMigrate]_vars

---------------------------------------------------------------------------
(* Claims about handles.                                                   *)

\* the base parts a Dataset handle of source src has for path segments parts
ExpectedBaseParts(src, parts) ==
  IF src.cls = "CommunitySource"
  THEN <<s_auspice_slash \o src.repoName>> \o parts
  ELSE parts

\* C1: constructing a Dataset handle fails with NoDatasetPathError exactly
\* when its base parts are empty and yields a handle otherwise; for the
\* generic Dataset (core, staging, S3 group sources) that is exactly when
\* the path segments passed in are empty.
C1_DatasetConstruction ==
  result.op = "dataset" =>
    /\ (result.threw = NoDatasetPathError)
         <=> (ExpectedBaseParts(result.source, result.arg) = <<>>)
    /\ (result.threw = NoDatasetPathError) <=> (handles = <<>>)
    /\ result.threw \in {"", NoDatasetPathError}
    /\ handles # <<>> => BaseParts(handles[1], heap) # <<>>
    /\ result.source.cls # "CommunitySource"
         => ((result.threw = NoDatasetPathError) <=> (result.arg = <<>>))

C1_Witness ==
  /\ result.op = "dataset"
  /\ result.source.cls = "SeattleFluSource"
  /\ result.arg = <<>>
  /\ result.threw = NoDatasetPathError
  /\ handles = <<>>

\* C2: source.narrative([]) on a source whose narrative base parts are the
\* plain path segments fails with NoDatasetPathError and returns no handle.
C2_NarrativeEmptyFails ==
  (/\ result.op = "narrative"
   /\ result.source.cls # "CommunitySource"
   /\ result.arg = <<>>)
  => (result.threw = NoDatasetPathError /\ handles = <<>>)

IsPrivate(src) == "PrivateS3Source" \in Range(Ancestry(src.cls))

\* C3: urlFor(type) / url() of a handle of a private S3 source is the signed
\* getObject URL for the source's bucket and the handle's base name, never
\* the base name joined onto the bucket's https://<bucket>.s3.amazonaws.com.
C3_PrivateUrlsSigned ==
  (result.op \in {"urlFor", "url"} /\ IsPrivate(result.source)) =>
    LET h == handles[1]
        key == IF result.op = "urlFor"
               THEN BaseNameFor(h, result.arg, heap)
               ELSE BaseName(h, heap)
    IN /\ \E sig \in Sigs :
            result.value = GetSignedUrl("getObject", Bucket(result.source), key, sig)
       /\ result.value # BaseUrl(result.source) \o s_slash \o key
       /\ result.value # ResolveUrl(key, BaseUrl(result.source))

C3_Witness ==
  /\ result.op = "urlFor"
  /\ result.source.cls = "InrbDrcSource"
  /\ result.arg = s_meta
  /\ heap[handles[1].pathParts] = <<<<"a">>, <<"h","3">>>>
  /\ result.value = GetSignedUrl("getObject", s_nextstrain_inrb,
                                 <<"a","_","h","3","_","m","e","t","a">> \o s_json, <<"1">>)

\* C8: what a handle holds does not change when the caller mutates the array
\* it passed in, nor when it mutates an array returned by baseParts: the
\* handle's pathParts, baseParts and base name stay those of construction.
C8_HandleOwnsCopy ==
  handles # <<>> =>
    /\ heap[handles[1].pathParts] = built[1]
    /\ BaseParts(handles[1], heap) = BaseParts(handles[1], built)
    /\ handles[1].cls \in {"Narrative", "CoreNarrative", "CommunityNarrative",
                           "PrivateS3Narrative"}
         => BaseName(handles[1], heap) = BaseName(handles[1], built)

\* the position before segment k when segments b are laid out with one
\* separator character between neighbours
RECURSIVE Offset(_, _)
Offset(b, k) == IF k = 1 THEN 0 ELSE Offset(b, k - 1) + Len(b[k - 1]) + 1

\* v is b[1] _ b[2] _ ... _ b[n] followed by tail
IsUnderscored(v, b, tail) ==
  LET n == Len(b)
      stem == IF n = 0 THEN 0 ELSE Offset(b, n) + Len(b[n])
  IN /\ Len(v) = stem + Len(tail)
     /\ \A k \in 1..n : SubSeq(v, Offset(b, k) + 1, Offset(b, k) + Len(b[k])) = b[k]
     /\ \A k \in 2..n : v[Offset(b, k)] = "_"
     /\ SubSeq(v, stem + 1, Len(v)) = tail

\* C10: for base parts b1..bn, baseNameFor("main") is b1_b2_..._bn.json and
\* baseNameFor(t) for another variant t is b1_b2_..._bn_t.json, segments in
\* their order; a Narrative's base name is b1_b2_..._bn.md.
C10_BaseNames ==
  /\ result.op = "baseNameFor" =>
       IsUnderscored(result.value, BaseParts(handles[1], heap),
                     IF result.arg = s_main THEN s_json
                     ELSE s_us \o result.arg \o s_json)
  /\ result.op = "baseName" =>
       IsUnderscored(result.value, BaseParts(handles[1], heap), s_md)

C10_Witness ==
  /\ result.op = "baseNameFor"
  /\ result.arg = s_main
  /\ heap[handles[1].pathParts] = <<<<"h","3">>, <<"a">>>>
  /\ result.value = <<"h","3","_","a">> \o s_json

\* C11: for a Community source with repo name R and path segments P (the
\* empty sequence included), the Community Dataset's base parts are
\* <<"auspice/R">> followed by P in order and the Community Narrative's are
\* <<"narratives/R">> followed by P; so they are never empty and constructing
\* a Community Dataset never raises NoDatasetPathError.
C11_CommunityBaseParts ==
  /\ (result.op = "baseParts" /\ result.source.cls = "CommunitySource") =>
       LET P == heap[handles[1].pathParts]
           b == heap[result.value]
           dir == IF handles[1].cls = "CommunityDataset"
                  THEN s_auspice_slash ELSE s_narratives_slash
       IN /\ handles[1].cls \in {"CommunityDataset", "CommunityNarrative"}
          /\ Len(b) = Len(P) + 1
          /\ b[1] = dir \o result.source.repoName
          /\ \A i \in 1..Len(P) : b[i + 1] = P[i]
  /\ (result.op = "dataset" /\ result.source.cls = "CommunitySource") =>
       /\ result.threw = ""
       /\ handles # <<>>
       /\ handles[1].cls = "CommunityDataset"

C11_Witness ==
  /\ result.op = "baseParts"
  /\ handles[1].cls = "CommunityDataset"
  /\ result.source.repoName = <<"n","c">>
  /\ built = <<<<>>>>
  /\ heap = <<<<>>, <<s_auspice_slash \o <<"n","c">>>>>>

\* C12: isRequestValidWithoutDataset is true exactly for a Community Dataset
\* handle with zero path segments; it is false for a Community Dataset
\* handle with one or more segments and for every Dataset handle of every
\* other source.
C12_ValidWithoutDataset ==
  result.op = "isRequestValidWithoutDataset" =>
    (result.value = TRUE
       <=> (/\ result.source.cls = "CommunitySource"
            /\ heap[handles[1].pathParts] = <<>>))

C12_Witness ==
  /\ result.op = "isRequestValidWithoutDataset"
  /\ result.source.cls = "CommunitySource"
  /\ built = <<<<>>>>
  /\ heap[handles[1].pathParts] = <<>>
  /\ result.value = TRUE

---------------------------------------------------------------------------
(* Claims about access control.                                            *)

\* C4: visibleToUser(user) of the private group source "inrb-drc", on the
\* class or an instance, is true exactly when the user is present, has a
\* groups list and the list contains the source's name "inrb-drc" (not its
\* bucket name); it is false for an absent user, a user without groups and a
\* user with an empty groups list.
C4_PrivateGroupVisibility ==
  (result.op = "visibleToUser" /\ result.source.cls = "InrbDrcSource") =>
    /\ result.threw = ""
    /\ result.value <=> (/\ result.arg.user.present
                         /\ result.arg.user.hasGroups
                         /\ \E i \in 1..Len(result.arg.user.groups) :
                              result.arg.user.groups[i] = s_inrb_drc)

C4_Witness ==
  /\ result.op = "visibleToUser"
  /\ result.source.cls = "InrbDrcSource"
  /\ result.arg.via = "instance"
  /\ result.arg.user = UserIn(<<s_nextstrain_inrb, s_inrb_drc>>)
  /\ result.value = TRUE

\* C5: a source class that descends from PrivateS3Source and has no
\* visibleToUser of its own fails with InvalidSourceImplementation on every
\* visibleToUser call, for every user; it never answers true.
C5_NoOverrideFails ==
  (/\ result.op = "visibleToUser"
   /\ result.source.cls \in {"PrivateS3Source", BareSubclass})
  => result.threw = InvalidSourceImplementation

C5_Witness ==
  /\ result.op = "visibleToUser"
  /\ result.source.cls = BareSubclass
  /\ result.arg.via = "instance"
  /\ result.arg.user = UserIn(<<s_inrb_drc>>)
  /\ result.threw = InvalidSourceImplementation

\* C18: Core, Core-Staging, Community and Public-Group sources are visible
\* to every user: visibleToUser answers true, without an error, for an absent
\* user, a user without groups and a user in any groups, on the class and on
\* an instance.
C18_PublicSourcesVisible ==
  (/\ result.op = "visibleToUser"
   /\ result.source.cls \in {"CoreSource", "CoreStagingSource", "CommunitySource",
                              "PublicGroupSource", "SeattleFluSource"})
  => (result.threw = "" /\ result.value = TRUE)

C18_Witness ==
  /\ result.op = "visibleToUser"
  /\ result.source.cls = "SeattleFluSource"
  /\ result.arg.via = "instance"
  /\ result.arg.user = NoUser
  /\ result.value = TRUE

---------------------------------------------------------------------------
(* Claims about the registry and the construction of sources.              *)

RegisteredNames == {s_core, s_staging, s_community, s_inrb_drc, s_seattleflu}

\* C13: the registry holds only fixed-identity sources (core, staging, the
\* named group sources); community sources are not registered, so looking
\* up "community" finds nothing.
C13_CommunityNotRegistered ==
  result.op = "lookup" =>
    /\ result.value.cls # "CommunitySource"
    /\ (result.arg = s_community => result.value.cls = Undefined)

\* C14: names are unique in the registry: it has one entry per registered
\* class, a lookup of a registered name finds a class whose name is the
\* looked-up string exactly, and a lookup of any other string finds nothing.
C14_NamesUnique ==
  result.op = "lookup" =>
    /\ Len(sourceMap) = Len(sources)
    /\ \A i \in 1..Len(sources) :
         \E j \in 1..Len(sourceMap) : sourceMap[j].value = sources[i]
    /\ \A i, j \in 1..Len(sourceMap) :
         sourceMap[i].key = sourceMap[j].key => i = j
    /\ (result.arg \in RegisteredNames
          => (result.value.cls # Undefined /\ result.value.name = result.arg))
    /\ (result.arg \notin RegisteredNames => result.value.cls = Undefined)

C14_Witness ==
  /\ result.op = "lookup"
  /\ result.arg = s_inrb_drc
  /\ result.value = [cls |-> "InrbDrcSource", name |-> s_inrb_drc]

\* C17: new CommunitySource(owner, repoName) with owner or repoName missing
\* (left out or empty) throws and makes no source; with both present it
\* succeeds and the source's repo is owner/repoName on branch master.
C17_CommunityConstruction ==
  result.op = "CommunitySource" =>
    LET o == result.arg.owner
        r == result.arg.repoName
        missing(x) == x = Absent \/ x = Given(<<>>)
    IN IF missing(o) \/ missing(r)
       THEN result.threw = "Error" /\ result.source = NoSource
       ELSE /\ result.threw = ""
            /\ result.source.cls = "CommunitySource"
            /\ result.value.repo = o.str \o <<"/">> \o r.str
            /\ result.value.branch = <<"m","a","s","t","e","r">>

C17_Witness ==
  /\ result.op = "CommunitySource"
  /\ result.arg = [owner |-> Given(<<"o">>), repoName |-> Given(<<>>)]
  /\ result.threw = "Error"

---------------------------------------------------------------------------
(* Claims about enumeration.                                               *)

IsS3(src) == "S3Source" \in Range(Ancestry(src.cls))

\* C6: availableDatasets() / availableNarratives() of an S3 source are
\* computed from every key of the bucket: each key ending in _tree.json
\* (resp. .md), on whatever page of the listing, contributes its path.
C6_WholeBucketListed ==
  (/\ result.op \in {"availableDatasets", "availableNarratives"}
   /\ IsS3(result.source)
   /\ result.arg = "ok")
  => \A i \in 1..Len(objects) :
       LET suffix == IF result.op = "availableDatasets" THEN s_tree_json ELSE s_md
       IN EndsWith(objects[i].Key, suffix)
            => \E j \in 1..Len(result.value) :
                 result.value[j] = SlashPath(StripSuffix(objects[i].Key, suffix))

\* C7: when the upstream listing call fails (a response that is not OK, a
\* rejected fetch, a rejected bucket listing), availableDatasets() and
\* availableNarratives() of every backend resolve to the empty list.
C7_FailureGivesEmptyList ==
  (/\ result.op \in {"availableDatasets", "availableNarratives"}
   /\ result.arg \in {"notok", "rejected"})
  => (result.threw = "" /\ result.value = <<>>)

\* C9: the list CommunitySource.availableDatasets() returns holds each
\* dataset path at most once, whatever the directory listing.
C9_PathsListedOnce ==
  (/\ result.op = "availableDatasets"
   /\ result.source.cls = "CommunitySource"
   /\ result.arg = "ok")
  => \A i, j \in 1..Len(result.value) :
       result.value[i] = result.value[j] => i = j

\* C15: every path that availableDatasets() or availableNarratives() returns
\* is made of non-empty segments only: it is not empty and has no leading,
\* trailing or doubled "/".
C15_PathsHaveNoEmptySegment ==
  (/\ result.op \in {"availableDatasets", "availableNarratives"}
   /\ result.threw = "")
  => \A k \in 1..Len(result.value) :
       LET path == result.value[k]
       IN /\ path # <<>>
          /\ path[1] # "/"
          /\ path[Len(path)] # "/"
          /\ \A i \in 1..(Len(path) - 1) : ~(path[i] = "/" /\ path[i + 1] = "/")

\* the .json files of the repository in a listing, by name
RepoJsonNames(src, listing) ==
  {listing[i].name : i \in {j \in 1..Len(listing) :
      /\ listing[j].type = "file"
      /\ EndsWith(listing[j].name, s_json)
      /\ StartsWith(listing[j].name, src.repoName)}}

IsSidecarName(name) ==
  \E sfx \in {<<"m","e","t","a">>, <<"t","r","e","e">>, <<"s","e","q">>,
               <<"r","o","o","t","-","s","e","q","u","e","n","c","e">>,
               <<"t","i","p","-","f","r","e","q","u","e","n","c","i","e","s">>} :
    EndsWith(name, <<"_">> \o sfx \o <<".","j","s","o","n">>)

\* the stems that count as datasets: each non-sidecar file, and each X whose
\* X_meta.json and X_tree.json are both listed
DatasetStems(src, listing) ==
  LET names == RepoJsonNames(src, listing)
      cut(name, n) == SubSeq(name, 1, Len(name) - n)
  IN {cut(name, 5) : name \in {n \in names : ~IsSidecarName(n)}}
       \cup {cut(name, 10) : name \in
                {n \in names : /\ EndsWith(n, <<"_","m","e","t","a",".","j","s","o","n">>)
                               /\ (cut(n, 10) \o <<"_","t","r","e","e",".","j","s","o","n">>)
                                    \in names}}

\* the path a stem is listed as: the repo name and one "_" taken off the
\* front, every other "_" turned into "/"
PathOfStem(src, stem) ==
  LET rest == SubSeq(stem, Len(src.repoName) + 1, Len(stem))
      bare == IF rest # <<>> /\ rest[1] = "_" THEN Tail(rest) ELSE rest
  IN [i \in 1..Len(bare) |-> IF bare[i] = "_" THEN "/" ELSE bare[i]]

\* C20: CommunitySource.availableDatasets() lists one path per dataset stem
\* and nothing else: a sidecar file (_meta, _tree, _root-sequence, _seq,
\* _tip-frequencies) yields nothing by itself, X_meta.json yields the path of
\* X only together with X_tree.json, a lone X_tree.json yields nothing, each
\* other regular .json file of the repo yields exactly one path, and entries
\* that are not files, not .json or not of the repo yield nothing.
C20_CommunitySidecars ==
  (/\ result.op = "availableDatasets"
   /\ result.source.cls = "CommunitySource"
   /\ result.arg = "ok")
  => LET stems == DatasetStems(result.source, files)
     IN /\ result.threw = ""
        /\ Len(result.value) = Cardinality(stems)
        /\ \A stem \in stems :
             \E k \in 1..Len(result.value) :
               result.value[k] = PathOfStem(result.source, stem)
        /\ \A k \in 1..Len(result.value) :
             \E stem \in stems : result.value[k] = PathOfStem(result.source, stem)

C20_Witness ==
  /\ result.op = "availableDatasets"
  /\ result.source.cls = "CommunitySource"
  /\ result.arg = "ok"
  /\ {files[i].name : i \in 1..Len(files)}
       = {<<"r","_","x","_","y">> \o s_meta_json, <<"r","_","x","_","y">> \o s_tree_json,
          <<"r","_","x">> \o s_tree_json}
  /\ result.value = <<<<"x","/","y">>>>

\* C21: enumeration and resolution of a Community source round-trip: for
\* every path availableDatasets() returns on a listing of the repo's auspice/
\* directory, the handle source.dataset(segments of the path) has a main
\* base name auspice/<repo>_....json or a meta base name
\* auspice/<repo>_..._meta.json that names a file of the listing.
C21_ListedDatasetsResolve ==
  result.op = "resolveListed" =>
    /\ result.threw = ""
    /\ \E i \in 1..Len(files) :
         /\ files[i].type = "file"
         /\ \/ result.value.main = <<"a","u","s","p","i","c","e","/">> \o files[i].name
            \/ result.value.meta = <<"a","u","s","p","i","c","e","/">> \o files[i].name

---------------------------------------------------------------------------
(* Claims about requests served side by side.                              *)

\* C16: requests against the same source are independent: the result of an
\* operation depends only on its arguments, the source and the upstream
\* listing, so two requests that call the same operation of the same source
\* with the same arguments get the same result however they interleave,
\* Core availableDatasets() included.
C16_RequestsIndependent ==
  \A r1, r2 \in 1..MaxRequests :
    (/\ requests[r1].op # "none"
     /\ requests[r1].op = requests[r2].op
     /\ requests[r1].source = requests[r2].source
     /\ requests[r1].arg = requests[r2].arg)
    => requests[r1].out = requests[r2].out

---------------------------------------------------------------------------
(* Claims about the group-migration script.                                *)

\* C19: a dry run of the migration script, which is what a run without
\* options is, changes nothing at any point: it sends no RemoveUserFromGroup,
\* DetachGroupPolicy, DeleteGroup, DeleteBucketPolicy or PutPublicAccessBlock
\* command, every aws s3 sync it runs has --dryrun, and it writes temporary
\* files only, leaving the policy files and data/groups.json as they were.
C19_DryRunChangesNothing ==
  script.pc # "parseArgs" =>
    /\ (\A k \in 1..Len(script.argv) : script.argv[k] # "--wet-run") => script.dryRun
    /\ script.dryRun =>
         /\ \A k \in 1..Len(script.sent) :
              script.sent[k].command \notin
                {"RemoveUserFromGroup", "DetachGroupPolicy", "DeleteGroup",
                 "DeleteBucketPolicy", "PutPublicAccessBlock"}
         /\ \A k \in 1..Len(script.ran) :
              \E j \in 1..Len(script.ran[k]) : script.ran[k][j] = "--dryrun"
         /\ \A k \in 1..Len(script.written) :
              /\ script.written[k].tmp
              /\ script.written[k].path \notin
                   {"./data/groups.json",
                    "aws/iam/policy/NextstrainDotOrgServerInstance.json",
                    "aws/iam/policy/NextstrainDotOrgServerInstanceDev.json"}

C19_Witness ==
  /\ script.pc = "done"
  /\ script.argv = <<>>
  /\ script.dryRun
  /\ script.members = <<"nextstrain-g", "alice">>
  /\ script.policies = <<"GroupPolicy", "SeeCloudFrontDistributions">>
  /\ Len(script.ran) = 3
  /\ Len(script.written) = 3
  /\ script.sent = <<>>

====
